---------------------------- MODULE Spec2Model ----------------------------
(***************************************************************************)
(* Model of mejorado_cloude.py: a Streamlit form application that logs     *)
(* column inspections per project, with accounts kept in one JSON file.    *)
(*                                                                         *)
(* Representation.  Text (str) is a sequence of code points, so that       *)
(* len(), strip(), "@" in s, base64 and ISO dates are computed as Python   *)
(* computes them.  bytes is a sequence of 0..255.  A value whose Python    *)
(* type matters carries a tag k: a photo is [k, v] with k one of "none",   *)
(* "bytes", "str"; a date field is [k, v] with k "date" (v = <<y, m, d>>)  *)
(* or "str".  Optional session values are <<>> (None) or <<x>>.  List      *)
(* indices are Python's (from 0).                                          *)
(***************************************************************************)
EXTENDS Integers, Sequences, FiniteSets, TLC

(***************************************************************************)
(* Bounds of the model.                                                    *)
(***************************************************************************)
\* The reviews a session list holds: in the account flows and the archive, in the
\* editing flows, and with two sessions; the entries of a review's history.
MaxRevs == 2
MaxEdit == 1
MaxConc == 1
MaxHist == 3

None == <<>>
Some(x) == <<x>>

(***************************************************************************)
(* Text helpers (Python str methods).                                      *)
(***************************************************************************)
IsSpace(c) == c \in {9, 10, 11, 12, 13, 28, 29, 30, 31, 32, 133, 160}

RECURSIVE lstrip(_)
lstrip(t) ==
    IF Len(t) > 0 /\ IsSpace(t[1]) THEN lstrip(Tail(t)) ELSE t

RECURSIVE rstrip(_)
rstrip(t) ==
    IF Len(t) > 0 /\ IsSpace(t[Len(t)]) THEN rstrip(SubSeq(t, 1, Len(t) - 1)) ELSE t

strip(t) == rstrip(lstrip(t))

Contains(t, c) == \E i \in 1..Len(t) : t[i] = c

\* Python's < on str: the first differing code point decides, a proper prefix is smaller.
RECURSIVE StrLess(_, _)
StrLess(a, b) ==
    IF Len(b) = 0 THEN FALSE
    ELSE IF Len(a) = 0 THEN TRUE
    ELSE IF a[1] # b[1] THEN a[1] < b[1]
    ELSE StrLess(Tail(a), Tail(b))

(***************************************************************************)
(* base64.b64encode / base64.b64decode (binascii, non-strict mode).        *)
(***************************************************************************)
B64Char(i) ==
    IF i < 26 THEN 65 + i
    ELSE IF i < 52 THEN 97 + (i - 26)
    ELSE IF i < 62 THEN 48 + (i - 52)
    ELSE IF i = 62 THEN 43 ELSE 47

\* The sextet of a code point, 64 for a character outside the alphabet.
B64Val(c) ==
    IF c >= 65 /\ c <= 90 THEN c - 65
    ELSE IF c >= 97 /\ c <= 122 THEN c - 97 + 26
    ELSE IF c >= 48 /\ c <= 57 THEN c - 48 + 52
    ELSE IF c = 43 THEN 62
    ELSE IF c = 47 THEN 63 ELSE 64

RECURSIVE b64encode(_)
b64encode(b) ==
    IF Len(b) = 0 THEN <<>>
    ELSE IF Len(b) = 1 THEN
        << B64Char(b[1] \div 4), B64Char((b[1] % 4) * 16), 61, 61 >>
    ELSE IF Len(b) = 2 THEN
        << B64Char(b[1] \div 4), B64Char((b[1] % 4) * 16 + (b[2] \div 16)),
           B64Char((b[2] % 16) * 4), 61 >>
    ELSE
        << B64Char(b[1] \div 4), B64Char((b[1] % 4) * 16 + (b[2] \div 16)),
           B64Char((b[2] % 16) * 4 + (b[3] \div 64)), B64Char(b[3] % 64) >>
        \o b64encode(SubSeq(b, 4, Len(b)))

\* binascii.a2b_base64: one pass over the characters; quad is the position in the
\* current group of four, left the bits carried over, pads the '=' seen in a row.
RECURSIVE B64Scan(_, _, _, _, _)
B64Scan(t, quad, left, pads, out) ==
    IF Len(t) = 0 THEN [exc |-> quad # 0, val |-> out]
    ELSE IF t[1] = 61 THEN
        IF quad >= 2 /\ quad + pads + 1 >= 4
        THEN [exc |-> FALSE, val |-> out]
        ELSE B64Scan(Tail(t), quad, left, IF quad >= 2 THEN pads + 1 ELSE pads, out)
    ELSE IF B64Val(t[1]) = 64 THEN B64Scan(Tail(t), quad, left, pads, out)
    ELSE IF quad = 0 THEN B64Scan(Tail(t), 1, B64Val(t[1]), 0, out)
    ELSE IF quad = 1 THEN
        B64Scan(Tail(t), 2, B64Val(t[1]) % 16, 0,
                Append(out, left * 4 + (B64Val(t[1]) \div 16)))
    ELSE IF quad = 2 THEN
        B64Scan(Tail(t), 3, B64Val(t[1]) % 4, 0,
                Append(out, left * 16 + (B64Val(t[1]) \div 4)))
    ELSE B64Scan(Tail(t), 0, 0, 0, Append(out, left * 64 + B64Val(t[1])))

\* b64decode of a str: the text must be ASCII, then a2b_base64.
b64decode(t) ==
    IF \E i \in 1..Len(t) : t[i] > 127 THEN [exc |-> TRUE, val |-> <<>>]
    ELSE B64Scan(t, 0, 0, 0, <<>>)

(***************************************************************************)
(* datetime.date.isoformat and datetime.fromisoformat(...).date(), for the *)
(* extended form YYYY-MM-DD.                                               *)
(***************************************************************************)
Digit(n) == 48 + n

isoformat(d) ==
    << Digit(d[1] \div 1000), Digit((d[1] \div 100) % 10), Digit((d[1] \div 10) % 10),
       Digit(d[1] % 10), 45,
       Digit(d[2] \div 10), Digit(d[2] % 10), 45,
       Digit(d[3] \div 10), Digit(d[3] % 10) >>

IsDigit(c) == c >= 48 /\ c <= 57

IsLeap(y) == (y % 4 = 0 /\ y % 100 # 0) \/ y % 400 = 0

DaysInMonth(y, m) ==
    IF m = 2 THEN (IF IsLeap(y) THEN 29 ELSE 28)
    ELSE IF m \in {4, 6, 9, 11} THEN 30 ELSE 31

fromisoformat(t) ==
    IF Len(t) # 10 \/ t[5] # 45 \/ t[8] # 45
       \/ \E i \in {1, 2, 3, 4, 6, 7, 9, 10} : ~IsDigit(t[i])
    THEN [exc |-> TRUE, val |-> <<>>]
    ELSE LET y == (t[1] - 48) * 1000 + (t[2] - 48) * 100 + (t[3] - 48) * 10 + (t[4] - 48)
             m == (t[6] - 48) * 10 + (t[7] - 48)
             d == (t[9] - 48) * 10 + (t[10] - 48)
         IN  IF y < 1 \/ m < 1 \/ m > 12 \/ d < 1 \/ d > DaysInMonth(y, m)
             THEN [exc |-> TRUE, val |-> <<>>]
             ELSE [exc |-> FALSE, val |-> <<y, m, d>>]

\* datetime.date.today(): the day the script runs.
Today == <<2025, 3, 9>>


(***************************************************************************)
(* The store.  A project record (dict) is                                  *)
(*   [kind, contrasena, correo, nombre_proyecto, pisos, tiene_sotanos,     *)
(*    num_sotanos, foto_perfil, revisiones_kind, revisiones]               *)
(* and a review record is                                                  *)
(*   [kind, nombre, piso, fecha_revision, observaciones, historial,        *)
(*    cumple, obs, foto]                                                   *)
(* with cumple and obs functions of the six checklist keys (the dict's     *)
(* cumple_<key> and obs_<key> entries).  kind is "dict" for a dict and     *)
(* revisiones_kind "list" for a list: every value the program builds has   *)
(* them; a file written by something else may hold another JSON type.      *)
(*                                                                         *)
(* The file is [st, top, users]: st is "missing" (no file), "json" (a JSON *)
(* document whose top-level value has type top and, for an object, the     *)
(* members users) or "truncated" (the prefix json.dump had written when it *)
(* raised: not a JSON document).  json.dump followed by json.load gives    *)
(* back a document of str, int, bool, None, list and dict with str keys    *)
(* unchanged, which is all a written document holds, so the document is    *)
(* kept as its value; what the JSON layer adds is that it cannot encode    *)
(* bytes or date values.                                                   *)
(***************************************************************************)
NoPhoto == [k |-> "none", v |-> <<>>]
Bytes(b) == [k |-> "bytes", v |-> b]
Str(t) == [k |-> "str", v |-> t]
DateOf(d) == [k |-> "date", v |-> d]

\* Python truth value of None, bytes or str.
Truthy(x) == x.k # "none" /\ Len(x.v) > 0

EmptyStore == <<>>
MissingFile == [st |-> "missing", top |-> "object", users |-> EmptyStore]
TruncatedFile == [st |-> "truncated", top |-> "object", users |-> EmptyStore]

\* ---- guardar_proyectos ----
EncodeFotoPerfil(p) ==
    IF Truthy(p) /\ p.k = "bytes" THEN Str(b64encode(p.v)) ELSE p

EncodeFecha(d) ==
    IF d.k = "date" THEN Str(isoformat(d.v)) ELSE d

EncodeFoto(p) ==
    IF Truthy(p)
    THEN (IF p.k = "bytes" THEN Str(b64encode(p.v)) ELSE NoPhoto)
    ELSE p

EncodeRev(rev) ==
    [rev EXCEPT !.fecha_revision = EncodeFecha(rev.fecha_revision),
                !.foto = EncodeFoto(rev.foto)]

EncodeInfo(info) ==
    [info EXCEPT !.foto_perfil = EncodeFotoPerfil(info.foto_perfil),
                 !.revisiones = [i \in 1..Len(info.revisiones) |->
                                    EncodeRev(info.revisiones[i])]]

\* json.dump raises TypeError on a bytes or a date value.
JsonSerializable(info) ==
    /\ info.foto_perfil.k # "bytes"
    /\ \A i \in 1..Len(info.revisiones) :
          /\ info.revisiones[i].fecha_revision.k # "date"
          /\ info.revisiones[i].foto.k # "bytes"

\* The file is opened with "w" (emptied) before json.dump runs, so a dump that
\* raises leaves a truncated file.  Returns the function's result and the file.
guardar_proyectos(data) ==
    LET data_to_save == [u \in DOMAIN data |-> EncodeInfo(data[u])]
    IN  IF \A u \in DOMAIN data : JsonSerializable(data_to_save[u])
        THEN [ok |-> TRUE,
              file |-> [st |-> "json", top |-> "object", users |-> data_to_save]]
        ELSE [ok |-> FALSE, file |-> TruncatedFile]

\* ---- cargar_proyectos ----
DecodeFoto(p) ==
    IF Truthy(p) /\ p.k = "str"
    THEN (LET r == b64decode(p.v) IN IF r.exc THEN NoPhoto ELSE Bytes(r.val))
    ELSE p

DecodeFecha(d) ==
    IF d.k = "str"
    THEN (LET r == fromisoformat(d.v) IN IF r.exc THEN DateOf(Today) ELSE DateOf(r.val))
    ELSE d

DecodeRev(rev) ==
    [rev EXCEPT !.fecha_revision = DecodeFecha(rev.fecha_revision),
                !.foto = DecodeFoto(rev.foto)]

DecodeInfo(info) ==
    [info EXCEPT !.foto_perfil = DecodeFoto(info.foto_perfil),
                 !.revisiones = [i \in 1..Len(info.revisiones) |->
                                    DecodeRev(info.revisiones[i])]]

\* The body of the try block: the exception it raises ("" for none) and its value.
TryLoad(f) ==
    IF f.st = "truncated" THEN [exc |-> "JSONDecodeError", val |-> EmptyStore]
    ELSE IF f.top # "object" THEN [exc |-> "AttributeError", val |-> EmptyStore]
    ELSE IF \E u \in DOMAIN f.users : f.users[u].kind # "dict"
    THEN [exc |-> "AttributeError", val |-> EmptyStore]
    ELSE IF \E u \in DOMAIN f.users : f.users[u].revisiones_kind # "list"
    THEN [exc |-> "TypeError", val |-> EmptyStore]
    ELSE IF \E u \in DOMAIN f.users : \E i \in 1..Len(f.users[u].revisiones) :
                f.users[u].revisiones[i].kind # "dict"
    THEN [exc |-> "TypeError", val |-> EmptyStore]
    ELSE [exc |-> "", val |-> [u \in DOMAIN f.users |-> DecodeInfo(f.users[u])]]

\* A handler for the parse error alone.
ExceptJSONDecodeError(exc) == exc = "JSONDecodeError"

\* except Exception: every exception of the body is caught.
ExceptException(exc) == TRUE

\* data: the dict returned; error: st.error was called; raised: an exception left
\* the function; file: the file afterwards (it is only read).
cargar_proyectos(f) ==
    IF f.st = "missing"
    THEN [data |-> EmptyStore, error |-> FALSE, raised |-> FALSE, file |-> f]
    ELSE LET r == TryLoad(f)
         IN  IF r.exc = ""
             THEN [data |-> r.val, error |-> FALSE, raised |-> FALSE, file |-> f]
             ELSE IF ExceptException(r.exc)
             THEN [data |-> EmptyStore, error |-> TRUE, raised |-> FALSE, file |-> f]
             ELSE [data |-> EmptyStore, error |-> FALSE, raised |-> TRUE, file |-> f]

\* ---- hash_password / verify_password ----
\* SHA-256's hex digest, as the digest of an ideal hash: a value that is not the
\* password and that two passwords share only if they are equal.
hash_password(password) == [sha256 |-> password]

\* A comparison that only looks at the digest being there.
verify_password_unchecked(password, hashed) == hash_password(password) # <<>>

verify_password(password, hashed) == hash_password(password) = hashed

\* ---- validar_credenciales ----
\* The st.error it shows, "" when the credentials pass.
validar_credenciales_error(usuario, contrasena, correo) ==
    IF Len(usuario) < 3 THEN "error: usuario corto"
    ELSE IF Len(contrasena) < 6 THEN "error: contrasena corta"
    ELSE IF Len(correo) > 0 /\ ~Contains(correo, 64) THEN "error: correo invalido"
    ELSE ""

validar_credenciales(usuario, contrasena, correo) ==
    validar_credenciales_error(usuario, contrasena, correo) = ""

\* ---- validar_campos_obligatorios ----
\* A validation that tests the texts as typed.
validar_campos_error_sin_strip(nombre, piso) ==
    IF Len(nombre) = 0 THEN "error: nombre obligatorio"
    ELSE IF Len(piso) = 0 THEN "error: piso obligatorio"
    ELSE ""

validar_campos_error(nombre, piso) ==
    IF Len(strip(nombre)) = 0 THEN "error: nombre obligatorio"
    ELSE IF Len(strip(piso)) = 0 THEN "error: piso obligatorio"
    ELSE ""

validar_campos_obligatorios(nombre, piso) == validar_campos_error(nombre, piso) = ""

(***************************************************************************)
(* The application.  One script run per user interaction; st.session_state *)
(* persists between the runs of a browser session, the file between all.   *)
(***************************************************************************)
VARIABLES
    file,                  \* proyectos.json
    usuario_logueado,      \* st.session_state.usuario_logueado, per session
    proyecto_activo,       \* st.session_state.proyecto_activo
    revisiones_guardadas,  \* st.session_state.revisiones_guardadas
    editando_idx,          \* st.session_state.editando_idx
    confirm_delete,        \* the i with st.session_state['confirm_delete_<i>'] set
    salida,                \* what the last run (of any session) showed: its st.error,
                           \* st.success and st.warning calls, "rerun" for st.rerun()
    ret,                   \* what guardar_revisiones_usuario returned in the last
                           \* run, "" when the run did not call it
    saved,                 \* the call of guardar_proyectos in the last run of any
                           \* session: its argument and result (NoSave: no call)
    loaded,                \* a call of cargar_proyectos on its own: the file it found
                           \* and its result
    clave_registro,        \* per username, the password typed in the registration
                           \* form the last time the form registered it
    pulsada,               \* per session, the <<user, i>> of the reviews whose
                           \* Eliminar was pressed once and that are still listed
    elegida                \* per session, where the review whose Editar was pressed
                           \* is in the list now (None: no edit going on, or it left)

vars == << file, usuario_logueado, proyecto_activo, revisiones_guardadas,
           editando_idx, confirm_delete, salida, ret, saved, loaded, clave_registro, pulsada, elegida >>

\* Browser sessions.
Sess == {1, 2}

\* items_a_revisar: the checklist keys in the dict's order, and their labels.
Items == << "estribos", "longitudinal", "recubrimiento", "posicion", "ejes", "traslapo" >>

items_a_revisar ==
    [key \in {Items[n] : n \in 1..Len(Items)} |->
        CASE key = "estribos" -> "Cantidad estribos"
          [] key = "longitudinal" -> "Cantidad acero longitudinal"
          [] key = "recubrimiento" -> "Recubrimiento"
          [] key = "posicion" -> "Posicion acero"
          [] key = "ejes" -> "Ubicacion columna (ejes)"
          [] key = "traslapo" -> "Traslapo"]

NoSave == [called |-> FALSE, ok |-> FALSE, data |-> EmptyStore]
NoLoad == [called |-> FALSE, before |-> MissingFile, data |-> EmptyStore,
           error |-> FALSE, raised |-> FALSE]

\* init_session_state
Init ==
    /\ file = MissingFile
    /\ usuario_logueado = [s \in Sess |-> None]
    /\ proyecto_activo = [s \in Sess |-> None]
    /\ revisiones_guardadas = [s \in Sess |-> <<>>]
    /\ editando_idx = [s \in Sess |-> None]
    /\ confirm_delete = [s \in Sess |-> {}]
    /\ salida = {}
    /\ ret = ""
    /\ saved = NoSave
    /\ loaded = NoLoad
    /\ clave_registro = EmptyStore
    /\ pulsada = [s \in Sess |-> {}]
    /\ elegida = [s \in Sess |-> None]

\* if st.session_state.usuario_logueado and st.session_state.proyecto_activo
LoggedIn(s) ==
    /\ usuario_logueado[s] # None
    /\ Len(usuario_logueado[s][1]) > 0
    /\ proyecto_activo[s] # None

\* The run's check of editando_idx against the list, before the form is drawn.
Normalise(idx, revs) ==
    IF idx # None /\ ~(idx[1] < Len(revs)) THEN None ELSE idx

NormIdx(s) ==
    IF LoggedIn(s) THEN Normalise(editando_idx[s], revisiones_guardadas[s])
    ELSE editando_idx[s]

\* proyectos = cargar_proyectos() at the top of every run: what it shows.
LoadMsgs(f) == IF cargar_proyectos(f).error THEN {"error: cargar proyectos"} ELSE {}

\* proyecto_activo is the project's dict; its 'revisiones' entry is the very list
\* that revisiones_guardadas holds, so it is kept there alone.
ProjectView(info) == [info EXCEPT !.revisiones = <<>>]

\* A save that keeps the stored reviews and adds the session's after them.
guardar_revisiones_usuario_merge(f, usuario, revs) ==
    LET ld == cargar_proyectos(f)
        proyectos == ld.data
    IN  IF usuario # None /\ Len(usuario[1]) > 0 /\ usuario[1] \in DOMAIN proyectos
        THEN LET stored == proyectos[usuario[1]].revisiones
                 nuevas == SelectSeq(revs, LAMBDA rev :
                              \A n \in 1..Len(stored) : stored[n] # rev)
                 p2 == [proyectos EXCEPT ![usuario[1]].revisiones = stored \o nuevas]
                 r == guardar_proyectos(p2)
             IN  [ok |-> r.ok, file |-> r.file,
                  msgs |-> LoadMsgs(f) \cup
                           (IF r.ok THEN {} ELSE {"error: guardar proyectos"}),
                  saved |-> [called |-> TRUE, ok |-> r.ok, data |-> p2]]
        ELSE [ok |-> FALSE, file |-> ld.file, msgs |-> LoadMsgs(f), saved |-> NoSave]

\* ---- guardar_revisiones_usuario ----
\* f: the file; usuario: usuario_logueado; revs: revisiones_guardadas.
guardar_revisiones_usuario(f, usuario, revs) ==
    LET ld == cargar_proyectos(f)
        proyectos == ld.data
    IN  IF usuario # None /\ Len(usuario[1]) > 0 /\ usuario[1] \in DOMAIN proyectos
        THEN LET p2 == [proyectos EXCEPT ![usuario[1]].revisiones = revs]
                 r == guardar_proyectos(p2)
             IN  [ok |-> r.ok, file |-> r.file,
                  msgs |-> LoadMsgs(f) \cup
                           (IF r.ok THEN {} ELSE {"error: guardar proyectos"}),
                  saved |-> [called |-> TRUE, ok |-> r.ok, data |-> p2]]
        ELSE [ok |-> FALSE, file |-> ld.file, msgs |-> LoadMsgs(f), saved |-> NoSave]

RetOf(ok) == IF ok THEN "True" ELSE "False"

\* A run that calls neither guardar_revisiones_usuario nor guardar_proyectos.
NoCalls(s) ==
    /\ ret' = ""
    /\ saved' = NoSave

\* ---- registro_form ----
Register(s, reg) ==
    LET proyectos == cargar_proyectos(file).data
        err == validar_credenciales_error(reg.usuario, reg.contrasena, reg.correo)
    IN  /\ editando_idx' = [editando_idx EXCEPT ![s] = NormIdx(s)]
        /\ ret' = ""
        /\ UNCHANGED << usuario_logueado, proyecto_activo, revisiones_guardadas,
                        confirm_delete, loaded, pulsada >>
        /\ IF err # ""
           THEN /\ salida' = LoadMsgs(file) \cup {err}
                /\ saved' = NoSave
                /\ UNCHANGED << file, clave_registro >>
           ELSE IF reg.usuario \in DOMAIN proyectos
           THEN /\ salida' = LoadMsgs(file) \cup {"error: usuario ya existe"}
                /\ saved' = NoSave
                /\ UNCHANGED << file, clave_registro >>
           ELSE LET nuevo == [kind |-> "dict",
                              contrasena |-> hash_password(reg.contrasena),
                              correo |-> reg.correo,
                              nombre_proyecto |-> reg.nombre_proyecto,
                              pisos |-> reg.pisos,
                              tiene_sotanos |-> reg.tiene_sotanos,
                              num_sotanos |-> reg.num_sotanos,
                              foto_perfil |-> IF reg.foto_perfil # None
                                              THEN Bytes(reg.foto_perfil[1])
                                              ELSE NoPhoto,
                              revisiones_kind |-> "list",
                              revisiones |-> <<>>]
                    p2 == [u \in DOMAIN proyectos \cup {reg.usuario} |->
                              IF u = reg.usuario THEN nuevo ELSE proyectos[u]]
                    r == guardar_proyectos(p2)
                IN  /\ file' = r.file
                    /\ saved' = [called |-> TRUE, ok |-> r.ok, data |-> p2]
                    /\ clave_registro' =
                          IF r.ok
                          THEN [u \in DOMAIN clave_registro \cup {reg.usuario} |->
                                   IF u = reg.usuario THEN reg.contrasena
                                   ELSE clave_registro[u]]
                          ELSE clave_registro
                    /\ salida' = (LoadMsgs(file) \cup
                          (IF r.ok THEN {"success: registrado"}
                           ELSE {"error: guardar proyectos", "error: guardar el proyecto"}))

\* ---- login_form ----
Login(s, usuario, contrasena) ==
    LET proyectos == cargar_proyectos(file).data
    IN  /\ NoCalls(s)
        /\ UNCHANGED << file, confirm_delete, loaded, clave_registro, pulsada >>
        /\ IF /\ usuario \in DOMAIN proyectos
              /\ verify_password(contrasena, proyectos[usuario].contrasena)
           THEN /\ usuario_logueado' = [usuario_logueado EXCEPT ![s] = Some(usuario)]
                /\ proyecto_activo' =
                       [proyecto_activo EXCEPT ![s] = Some(ProjectView(proyectos[usuario]))]
                /\ revisiones_guardadas' =
                       [revisiones_guardadas EXCEPT ![s] = proyectos[usuario].revisiones]
                \* st.rerun(): the next run checks editando_idx against the new list
                /\ editando_idx' = [editando_idx EXCEPT ![s] =
                       Normalise(editando_idx[s], proyectos[usuario].revisiones)]
                /\ salida' = LoadMsgs(file) \cup {"success: bienvenido", "rerun"}
           ELSE /\ salida' = LoadMsgs(file) \cup {"error: usuario o contrasena"}
                /\ editando_idx' = [editando_idx EXCEPT ![s] = NormIdx(s)]
                /\ UNCHANGED << usuario_logueado, proyecto_activo, revisiones_guardadas >>

\* A logout whose key list lacks 'revisiones_guardadas' and 'editando_idx'.
Logout_keeps_reviews(s) ==
    /\ usuario_logueado[s] # None
    /\ usuario_logueado' = [usuario_logueado EXCEPT ![s] = None]
    /\ proyecto_activo' = [proyecto_activo EXCEPT ![s] = None]
    /\ salida' = {"rerun"}
    /\ ret' = ""
    /\ saved' = [called |-> FALSE, ok |-> FALSE, data |-> <<>>]
    /\ UNCHANGED << file, revisiones_guardadas, editando_idx, confirm_delete, loaded,
                    clave_registro, pulsada >>

\* ---- Cerrar Sesion ----
\* The four keys are deleted and init_session_state, in the rerun, sets them anew.
Logout(s) ==
    /\ LoggedIn(s)
    /\ usuario_logueado' = [usuario_logueado EXCEPT ![s] = None]
    /\ proyecto_activo' = [proyecto_activo EXCEPT ![s] = None]
    /\ revisiones_guardadas' = [revisiones_guardadas EXCEPT ![s] = <<>>]
    /\ editando_idx' = [editando_idx EXCEPT ![s] = None]
    /\ salida' = LoadMsgs(file) \cup {"rerun"}
    /\ NoCalls(s)
    /\ UNCHANGED << file, confirm_delete, loaded, clave_registro, pulsada >>

\* ---- revision_form ----
\* A submitted form is [nombre, piso, fecha, observaciones, cumple, obs,
\* obs_correccion, foto]: cumple and obs by checklist key, foto None or the uploaded
\* file's bytes.

\* pop(i) of a list.
RemoveAt(revs, i) == SubSeq(revs, 1, i) \o SubSeq(revs, i + 2, Len(revs))

\* History lines for every key that was 'No cumple', whatever it is now.
Cambios_sin_nueva(anterior, nueva, obs_correccion) ==
    LET keys == SelectSeq(Items, LAMBDA key : anterior.cumple[key] = "No cumple")
    IN  [n \in 1..Len(keys) |->
            [fecha |-> Today,
             label |-> items_a_revisar[keys[n]],
             anterior |-> anterior.obs[keys[n]],
             correccion |-> obs_correccion]]

\* The history lines of an update, one per key in items_a_revisar's order whose
\* status goes from 'No cumple' to 'Cumple': the parts of the formatted line.
Cambios(anterior, nueva, obs_correccion) ==
    LET keys == SelectSeq(Items, LAMBDA key :
                    /\ anterior.cumple[key] = "No cumple"
                    /\ nueva.cumple[key] = "Cumple")
    IN  [n \in 1..Len(keys) |->
            [fecha |-> Today,
             label |-> items_a_revisar[keys[n]],
             anterior |-> anterior.obs[keys[n]],
             correccion |-> obs_correccion]]

\* nueva_revision before the history lines are added.  The text area of a key is
\* drawn only when its status is 'No cumple'; the correction text area only when
\* the edited review has a 'No cumple'.
NuevaRevision(form, revision_a_editar) ==
    [kind |-> "dict",
     nombre |-> strip(form.nombre),
     piso |-> strip(form.piso),
     fecha_revision |-> DateOf(form.fecha),
     observaciones |-> strip(form.observaciones),
     historial |-> IF revision_a_editar # None
                   THEN revision_a_editar[1].historial ELSE <<>>,
     cumple |-> form.cumple,
     obs |-> [key \in DOMAIN form.cumple |->
                 IF form.cumple[key] = "No cumple" THEN strip(form.obs[key]) ELSE <<>>],
     foto |-> IF form.foto # None THEN Bytes(form.foto[1])
              ELSE IF revision_a_editar # None THEN revision_a_editar[1].foto
              ELSE NoPhoto]

ObsCorreccion(form, revision_a_editar) ==
    IF /\ revision_a_editar # None
       /\ \E key \in DOMAIN revision_a_editar[1].cumple :
              revision_a_editar[1].cumple[key] = "No cumple"
    THEN form.obs_correccion ELSE <<>>

SubmitReview(s, form) ==
    LET revs == revisiones_guardadas[s]
        idx == Normalise(editando_idx[s], revs)
        revision_a_editar == IF idx # None THEN Some(revs[idx[1] + 1]) ELSE None
        err == validar_campos_error(form.nombre, form.piso)
        nueva0 == NuevaRevision(form, revision_a_editar)
    IN  /\ LoggedIn(s)
        /\ UNCHANGED << usuario_logueado, proyecto_activo, confirm_delete, loaded, clave_registro, pulsada >>
        /\ IF err # ""
           THEN /\ salida' = LoadMsgs(file) \cup {err}
                /\ editando_idx' = [editando_idx EXCEPT ![s] = idx]
                /\ NoCalls(s)
                /\ UNCHANGED << file, revisiones_guardadas >>
           ELSE IF idx # None
           THEN LET anterior == revs[idx[1] + 1]
                    nueva == [nueva0 EXCEPT !.historial = nueva0.historial \o
                                 Cambios(anterior, nueva0,
                                         ObsCorreccion(form, revision_a_editar))]
                    revs2 == [revs EXCEPT ![idx[1] + 1] = nueva]
                    r == guardar_revisiones_usuario(file, usuario_logueado[s], revs2)
                IN  /\ revisiones_guardadas' = [revisiones_guardadas EXCEPT ![s] = revs2]
                    /\ file' = r.file
                    /\ saved' = r.saved
                    /\ ret' = RetOf(r.ok)
                    /\ IF r.ok
                       THEN /\ salida' = r.msgs \cup {"success: revision actualizada", "rerun"}
                            /\ editando_idx' = [editando_idx EXCEPT ![s] = None]
                       ELSE /\ salida' = r.msgs \cup {"error: actualizar la revision"}
                            /\ editando_idx' = [editando_idx EXCEPT ![s] = idx]
           ELSE LET revs2 == Append(revs, nueva0)
                    r == guardar_revisiones_usuario(file, usuario_logueado[s], revs2)
                IN  /\ revisiones_guardadas' = [revisiones_guardadas EXCEPT ![s] = revs2]
                    /\ file' = r.file
                    /\ saved' = r.saved
                    /\ ret' = RetOf(r.ok)
                    /\ editando_idx' = [editando_idx EXCEPT ![s] = idx]
                    /\ salida' = (r.msgs \cup
                          (IF r.ok THEN {"success: revision guardada", "rerun"}
                           ELSE {"error: guardar la revision"}))

\* The form's Cancelar button: limpiar_formulario and st.rerun().
Cancel(s) ==
    /\ LoggedIn(s)
    /\ editando_idx' = [editando_idx EXCEPT ![s] = None]
    /\ salida' = LoadMsgs(file) \cup {"rerun"}
    /\ NoCalls(s)
    /\ UNCHANGED << file, usuario_logueado, proyecto_activo, revisiones_guardadas,
                    confirm_delete, loaded, clave_registro, pulsada >>

\* ---- the archive ----
\* sorted() of a set of strings: by code point, a proper prefix first.
RECURSIVE sorted(_)
sorted(S) ==
    IF S = {} THEN <<>>
    ELSE LET first == CHOOSE x \in S : \A y \in S \ {x} : StrLess(x, y)
         IN  <<first>> \o sorted(S \ {first})

\* The grouping loop from the review at index i on; acc is the dict so far.
RECURSIVE AgruparDesde(_, _, _)
AgruparDesde(revs, i, acc) ==
    IF i >= Len(revs) THEN acc
    ELSE LET rev == revs[i + 1]
             piso == rev.piso
             acc2 == IF piso \in DOMAIN acc THEN acc
                     ELSE [p \in DOMAIN acc \cup {piso} |->
                              IF p = piso THEN <<>> ELSE acc[p]]
         IN  AgruparDesde(revs, i + 1, [acc2 EXCEPT ![piso] = Append(@, <<i, rev>>)])

\* A grouping that numbers the reviews within their group.
RECURSIVE AgruparLocal(_, _, _)
AgruparLocal(revs, i, acc) ==
    IF i >= Len(revs) THEN acc
    ELSE LET rev == revs[i + 1]
             piso == rev.piso
             acc2 == IF piso \in DOMAIN acc THEN acc
                     ELSE [p \in DOMAIN acc \cup {piso} |->
                              IF p = piso THEN <<>> ELSE acc[p]]
         IN  AgruparLocal(revs, i + 1,
                 [acc2 EXCEPT ![piso] = Append(@, <<Len(acc2[piso]), rev>>)])

revisiones_por_piso_local(revs) == AgruparLocal(revs, 0, <<>>)

\* revisiones_por_piso: floor label -> list of (i, rev).
revisiones_por_piso(revs) == AgruparDesde(revs, 0, <<>>)

pisos_ordenados(revs) == sorted(DOMAIN revisiones_por_piso(revs))

\* The indices the buttons of the archive carry: those of the group of the floor
\* selected, any of pisos_ordenados.
Botones(revs) ==
    LET grupos == revisiones_por_piso(revs)
        orden == pisos_ordenados(revs)
    IN  UNION { { grupos[orden[k]][n][1] : n \in 1..Len(grupos[orden[k]]) } :
                k \in 1..Len(orden) }

\* ---- the archive's buttons, drawn with the review's index i ----
\* Editar: cargar_para_editar(i) and st.rerun().
Edit(s, i) ==
    /\ LoggedIn(s)
    /\ i \in Botones(revisiones_guardadas[s])
    /\ editando_idx' = [editando_idx EXCEPT ![s] = Some(i)]
    /\ salida' = LoadMsgs(file) \cup {"rerun"}
    /\ NoCalls(s)
    /\ UNCHANGED << file, usuario_logueado, proyecto_activo, revisiones_guardadas,
                    confirm_delete, loaded, clave_registro, pulsada >>

\* Eliminar.
\* The reviews of usuario with a pressed Eliminar, once the one at index i is
\* popped: that one is gone and the later ones moved one place down.
Desplazar(pares, usuario, i) ==
    {p \in pares : p[1] # usuario \/ p[2] < i}
        \cup {<<usuario, p[2] - 1>> : p \in {q \in pares : q[1] = usuario /\ q[2] > i}}

\* What a press of Eliminar at index i does to the record of pressed buttons.
Pulsar(s, i) ==
    pulsada' = [pulsada EXCEPT ![s] =
                   IF i \in confirm_delete[s]
                   THEN Desplazar(@, usuario_logueado[s][1], i)
                   ELSE @ \cup {<<usuario_logueado[s][1], i>>}]

DeletePress(s, i) ==
    /\ LoggedIn(s)
    /\ i \in Botones(revisiones_guardadas[s])
    /\ UNCHANGED << usuario_logueado, proyecto_activo, loaded, clave_registro >>
    /\ IF i \in confirm_delete[s]
       THEN LET revs2 == RemoveAt(revisiones_guardadas[s], i)
                r == guardar_revisiones_usuario(file, usuario_logueado[s], revs2)
            IN  /\ revisiones_guardadas' = [revisiones_guardadas EXCEPT ![s] = revs2]
                /\ file' = r.file
                /\ saved' = r.saved
                /\ ret' = RetOf(r.ok)
                /\ salida' = r.msgs \cup {"success: revision eliminada", "rerun"}
                \* st.rerun(): the next run checks editando_idx against the list
                /\ editando_idx' = [editando_idx EXCEPT ![s] =
                                       Normalise(editando_idx[s], revs2)]
                /\ UNCHANGED confirm_delete
       ELSE /\ confirm_delete' = [confirm_delete EXCEPT ![s] = @ \cup {i}]
            /\ salida' = LoadMsgs(file) \cup {"warning: confirmar eliminacion"}
            /\ editando_idx' = [editando_idx EXCEPT ![s] = NormIdx(s)]
            /\ NoCalls(s)
            /\ UNCHANGED << file, revisiones_guardadas >>

(***************************************************************************)
(* Inputs.                                                                 *)
(***************************************************************************)
ana == <<97, 110, 97>>                         \* "ana"
bob == <<98, 111, 98>>                         \* "bob"
secret == <<115, 101, 99, 114, 101, 116>>      \* "secret"
hunter2 == <<104, 117, 110, 116, 101, 114, 50>> \* "hunter2"
mail == <<97, 64, 98, 46, 99>>                 \* "a@b.c"
obra == <<79, 98, 114, 97>>                    \* "Obra"
png == <<137, 80>>                             \* the first bytes of an image file

RegInput(usuario, contrasena, correo, foto_perfil) ==
    [usuario |-> usuario, contrasena |-> contrasena, correo |-> correo,
     nombre_proyecto |-> obra, pisos |-> 3, tiene_sotanos |-> FALSE, num_sotanos |-> 0,
     foto_perfil |-> foto_perfil]

\* A file uploader gives no file, or a file of any length, the empty file included.
Uploads == {None, Some(<<>>), Some(png)}

Keys == {Items[n] : n \in 1..Len(Items)}
AllCumple == [key \in Keys |-> "Cumple"]
SomeNoCumple == [key \in Keys |->
                    IF key \in {"estribos", "traslapo"} THEN "No cumple" ELSE "Cumple"]
OneNoCumple == [key \in Keys |-> IF key = "posicion" THEN "No cumple" ELSE "Cumple"]

FormInput(nombre, piso, cumple, foto) ==
    [nombre |-> nombre, piso |-> piso, fecha |-> <<2024, 2, 29>>,
     observaciones |-> <<>>, cumple |-> cumple,
     obs |-> [key \in Keys |-> IF cumple[key] = "No cumple" THEN <<109, 97, 108>> ELSE <<>>],
     obs_correccion |-> <<111, 107>>, foto |-> foto]

\* The account flows: ana registers with either password, or with an empty file as
\* photo, bob with an image and no e-mail; three submissions that
\* validar_credenciales rejects.
RegInputs ==
    { RegInput(ana, secret, mail, None), RegInput(ana, hunter2, mail, None),
      RegInput(ana, secret, mail, Some(<<>>)), RegInput(bob, secret, <<>>, Some(png)),
      RegInput(<<97, 98>>, secret, mail, None),  \* "ab"
      RegInput(ana, <<49, 50, 51>>, mail, None), \* "123"
      RegInput(bob, secret, <<97, 98>>, None) }  \* "ab"

Credentials == {ana, bob} \X {secret, hunter2}

FormsAccount ==
    { FormInput(<<67, 49, 32>>, <<50>>, AllCumple, None),  \* "C1 ", "2"
      FormInput(<<32, 9>>, <<50>>, AllCumple, None),       \* " \t", "2"
      FormInput(<<67, 50>>, <<32>>, AllCumple, None),      \* "C2", " "
      FormInput(<<>>, <<>>, AllCumple, None) }

(***************************************************************************)
(* Specifications.                                                         *)
(***************************************************************************)
\* The session lists and histories stay within the bounds.
Bounded(s, maxRevs) ==
    /\ Len(revisiones_guardadas'[s]) <= maxRevs
    /\ \A k \in 1..Len(revisiones_guardadas'[s]) :
          Len(revisiones_guardadas'[s][k].historial) <= MaxHist

\* One step of session s with the given inputs.
Step(s, Regs, Creds, Forms, maxRevs) ==
    \/ \E reg \in Regs : Register(s, reg) /\ UNCHANGED elegida
    \/ \E c \in Creds : Login(s, c[1], c[2]) /\ UNCHANGED elegida
    \/ Logout(s) /\ UNCHANGED elegida
    \/ \E form \in Forms : SubmitReview(s, form) /\ Bounded(s, maxRevs) /\ UNCHANGED elegida
    \/ Cancel(s) /\ UNCHANGED elegida
    \/ \E i \in 0..(maxRevs - 1) : Edit(s, i) /\ UNCHANGED elegida
    \/ \E i \in 0..(maxRevs - 1) : DeletePress(s, i) /\ UNCHANGED << pulsada, elegida >>

\* The account flows: one browser session, two usernames.
Next == Step(1, RegInputs, Credentials, FormsAccount, MaxRevs)

Spec == Init /\ [][Next]_vars

\* The review flows: one session, one account, forms that differ in name, floor,
\* checklist and photo, two of them with a blank required field.
C1name == <<67, 49, 32>>                       \* "C1 "
C2name == <<67, 50>>                           \* "C2"
piso2 == <<50>>                                \* "2"
piso10 == <<32, 49, 48>>                       \* " 10"

RegsRev == { RegInput(ana, secret, mail, None) }
\* ... and a second project registered with an empty file as its photo.
RegsRevision == RegsRev \cup { RegInput(bob, secret, mail, Some(<<>>)) }
CredsRev == { <<ana, secret>> }

FormsRev ==
    { FormInput(C1name, piso2, OneNoCumple, None),
      FormInput(C1name, piso2, SomeNoCumple, None),
      FormInput(C1name, piso2, AllCumple, None) }

\* The session registers, logs in and out, submits, edits and cancels.
StepRev(s) ==
    \/ \E reg \in RegsRevision : Register(s, reg) /\ UNCHANGED elegida
    \/ \E c \in CredsRev : Login(s, c[1], c[2]) /\ UNCHANGED elegida
    \/ Logout(s) /\ UNCHANGED elegida
    \/ \E form \in FormsRev : SubmitReview(s, form) /\ Bounded(s, MaxEdit) /\ UNCHANGED elegida
    \/ Cancel(s) /\ UNCHANGED elegida
    \/ \E i \in 0..(MaxEdit - 1) : Edit(s, i) /\ UNCHANGED elegida

NextRev == StepRev(1)

SpecRev == Init /\ [][NextRev]_vars

\* Two browser sessions on one account.
FormsConc ==
    { FormInput(C1name, piso2, AllCumple, None),
      FormInput(C2name, piso10, AllCumple, None),
      FormInput(C1name, piso2, AllCumple, Some(<<>>)) }

\* The sessions register, log in and out, submit new reviews and delete.
StepConc(s) ==
    \/ \E reg \in RegsRev : Register(s, reg) /\ UNCHANGED elegida
    \/ \E c \in CredsRev : Login(s, c[1], c[2]) /\ UNCHANGED elegida
    \/ Logout(s) /\ UNCHANGED elegida
    \/ \E form \in FormsConc : SubmitReview(s, form) /\ Bounded(s, MaxConc) /\ UNCHANGED elegida
    \/ \E i \in 0..(MaxConc - 1) : DeletePress(s, i) /\ UNCHANGED << pulsada, elegida >>

NextConc == \E s \in Sess : StepConc(s)

SpecConc == Init /\ [][NextConc]_vars

\* One session that registers, logs in and out, submits new reviews and deletes,
\* with the record of the Eliminar buttons pressed.
StepDelete(s) ==
    \/ \E reg \in RegsRev : Register(s, reg) /\ UNCHANGED elegida
    \/ \E c \in CredsRev : Login(s, c[1], c[2]) /\ UNCHANGED elegida
    \/ Logout(s) /\ UNCHANGED elegida
    \/ \E form \in FormsConc : SubmitReview(s, form) /\ Bounded(s, MaxRevs) /\ UNCHANGED elegida
    \/ \E i \in 0..(MaxRevs - 1) : DeletePress(s, i) /\ Pulsar(s, i) /\ UNCHANGED elegida

NextDelete == StepDelete(1)

SpecDelete == Init /\ [][NextDelete]_vars

\* Where the review whose Editar was pressed is after a run that neither presses
\* Editar nor pops a review: nowhere once the edit is over or another user's
\* reviews are loaded, else where it was.
Seguir(s) ==
    elegida' = [elegida EXCEPT ![s] =
                   IF editando_idx'[s] = None \/ usuario_logueado'[s] # usuario_logueado[s]
                   THEN None
                   ELSE @]

\* The same after a press of Eliminar at index i: the chosen review leaves with
\* pop(i) when it is the one at i, and moves one place down when it is after i.
SeguirEliminar(s, i) ==
    elegida' = [elegida EXCEPT ![s] =
                   IF editando_idx'[s] = None \/ @ = None THEN None
                   ELSE IF i \notin confirm_delete[s] THEN @
                   ELSE IF @[1] = i THEN None
                   ELSE IF @[1] > i THEN Some(@[1] - 1)
                   ELSE @]

\* One session that registers, logs in and out, submits, edits, cancels and
\* deletes, with the record of the review chosen for editing.
StepEdit(s) ==
    \/ \E reg \in RegsRev : Register(s, reg) /\ Seguir(s)
    \/ \E c \in CredsRev : Login(s, c[1], c[2]) /\ Seguir(s)
    \/ Logout(s) /\ Seguir(s)
    \/ \E form \in FormsConc : SubmitReview(s, form) /\ Bounded(s, MaxRevs) /\ Seguir(s)
    \/ Cancel(s) /\ Seguir(s)
    \/ \E i \in 0..(MaxRevs - 1) : Edit(s, i) /\ elegida' = [elegida EXCEPT ![s] = Some(i)]
    \/ \E i \in 0..(MaxRevs - 1) :
          DeletePress(s, i) /\ UNCHANGED pulsada /\ SeguirEliminar(s, i)

NextEdit == StepEdit(1)

SpecEdit == Init /\ [][NextEdit]_vars

\* cargar_proyectos on its own, on files of every shape: no file, a truncated
\* file, a document that is no object, projects that are no dict, reviews that are
\* no list or hold a number, photos and dates that decode or do not.
RevOnDisk(kind, fecha, foto) ==
    [kind |-> kind, nombre |-> C2name, piso |-> piso2, fecha_revision |-> fecha,
     observaciones |-> <<>>, historial |-> <<>>, cumple |-> AllCumple,
     obs |-> [key \in Keys |-> <<>>], foto |-> foto]

InfoOnDisk(kind, foto_perfil, revisiones_kind, revisiones) ==
    [kind |-> kind, contrasena |-> hash_password(secret), correo |-> mail,
     nombre_proyecto |-> obra, pisos |-> 3, tiene_sotanos |-> FALSE, num_sotanos |-> 0,
     foto_perfil |-> foto_perfil, revisiones_kind |-> revisiones_kind,
     revisiones |-> revisiones]

FotosOnDisk ==
    { NoPhoto, Str(<<>>), Str(b64encode(png)), Str(<<65>>) }      \* "A": bad padding

FechasOnDisk ==
    { Str(isoformat(<<2024, 2, 29>>)),
      Str(<<50, 48, 50, 51, 45, 48, 50, 45, 50, 57>>),            \* "2023-02-29"
      Str(<<>>) }

RevsOnDisk ==
    { RevOnDisk("dict", fecha, foto) : fecha \in FechasOnDisk, foto \in FotosOnDisk }
        \cup { RevOnDisk("number", Str(<<>>), NoPhoto) }

InfosOnDisk ==
    { InfoOnDisk("dict", foto, "list", <<rev>>) : foto \in FotosOnDisk, rev \in RevsOnDisk }
        \cup { InfoOnDisk("dict", NoPhoto, "list", <<>>),
               InfoOnDisk("str", NoPhoto, "list", <<>>),
               InfoOnDisk("dict", NoPhoto, "null", <<>>) }

FilesOnDisk ==
    { MissingFile, TruncatedFile,
      [st |-> "json", top |-> "object", users |-> EmptyStore],
      [st |-> "json", top |-> "array", users |-> EmptyStore],
      [st |-> "json", top |-> "number", users |-> EmptyStore] }
        \cup { [st |-> "json", top |-> "object", users |-> [u \in {ana} |-> info]] :
                  info \in InfosOnDisk }
        \cup { [st |-> "json", top |-> "object",
                users |-> [u \in {ana, bob} |->
                              IF u = ana THEN InfoOnDisk("dict", Str(b64encode(png)),
                                                         "list", <<>>)
                              ELSE info]] :
                  info \in InfosOnDisk }

InitLoad ==
    /\ file \in FilesOnDisk
    /\ usuario_logueado = [s \in Sess |-> None]
    /\ proyecto_activo = [s \in Sess |-> None]
    /\ revisiones_guardadas = [s \in Sess |-> <<>>]
    /\ editando_idx = [s \in Sess |-> None]
    /\ confirm_delete = [s \in Sess |-> {}]
    /\ salida = {}
    /\ ret = ""
    /\ saved = NoSave
    /\ loaded = NoLoad
    /\ clave_registro = EmptyStore
    /\ pulsada = [s \in Sess |-> {}]
    /\ elegida = [s \in Sess |-> None]

\* proyectos = cargar_proyectos()
Load ==
    LET r == cargar_proyectos(file)
    IN  /\ loaded' = [called |-> TRUE, before |-> file, data |-> r.data,
                      error |-> r.error, raised |-> r.raised]
        /\ file' = r.file
        /\ salida' = LoadMsgs(file)
        /\ UNCHANGED << usuario_logueado, proyecto_activo, revisiones_guardadas,
                        editando_idx, confirm_delete, ret, saved, clave_registro, pulsada,
                        elegida >>

SpecLoad == InitLoad /\ [][Load]_vars

\* The archive of a session that has just logged in to an account with reviews of
\* the floors "2", "10" and "1", in any order: its buttons.
piso1 == <<49, 32>>                            \* "1 "

FormsArchive ==
    { FormInput(C1name, piso2, AllCumple, None),
      FormInput(C2name, piso10, OneNoCumple, None),
      FormInput(C1name, piso1, AllCumple, None) }

ListasArchive ==
    UNION { [1..n -> { NuevaRevision(form, None) : form \in FormsArchive }] :
            n \in 0..MaxRevs }

InitArchive ==
    \E revs \in ListasArchive :
        LET r == guardar_proyectos(
                     [u \in {ana} |-> InfoOnDisk("dict", NoPhoto, "list", revs)])
            proyectos == cargar_proyectos(r.file).data
        IN  /\ file = r.file
            /\ usuario_logueado = [s \in Sess |-> IF s = 1 THEN Some(ana) ELSE None]
            /\ proyecto_activo =
                  [s \in Sess |-> IF s = 1 THEN Some(ProjectView(proyectos[ana]))
                                  ELSE None]
            /\ revisiones_guardadas =
                  [s \in Sess |-> IF s = 1 THEN proyectos[ana].revisiones ELSE <<>>]
            /\ editando_idx = [s \in Sess |-> None]
            /\ confirm_delete = [s \in Sess |-> {}]
            /\ salida = {"success: bienvenido", "rerun"}
            /\ ret = ""
            /\ saved = NoSave
            /\ loaded = NoLoad
            /\ clave_registro = [u \in {ana} |-> secret]
            /\ pulsada = [s \in Sess |-> {}]
            /\ elegida = [s \in Sess |-> None]

NextArchive ==
    \/ \E i \in 0..(MaxRevs - 1) : Edit(1, i) /\ UNCHANGED elegida
    \/ Cancel(1) /\ UNCHANGED elegida
    \/ \E i \in 0..(MaxRevs - 1) : DeletePress(1, i) /\ UNCHANGED << pulsada, elegida >>

SpecArchive == InitArchive /\ [][NextArchive]_vars

(***************************************************************************)
(* Properties.                                                             *)
(***************************************************************************)
\* The store as the next run reads it.
Store == cargar_proyectos(file).data

\* A project record without its reviews.
Account(info) == [info EXCEPT !.revisiones = <<>>]

PhotoIsBytesOrNone(p) == p.k \in {"none", "bytes"}

\* Every photo is bytes or None and every fecha_revision a date.
WellTyped(data) ==
    \A u \in DOMAIN data :
        /\ PhotoIsBytesOrNone(data[u].foto_perfil)
        /\ \A i \in 1..Len(data[u].revisiones) :
              /\ PhotoIsBytesOrNone(data[u].revisiones[i].foto)
              /\ data[u].revisiones[i].fecha_revision.k = "date"

\* C1: for a store whose photos are bytes or None and whose dates are date values,
\* guardar_proyectos succeeds and cargar_proyectos then returns an equal store.
C1_SaveLoadRoundTrip ==
    (saved.called /\ WellTyped(saved.data))
        => (saved.ok /\ Store = saved.data)

\* C1, for the stores the save does keep: no photo is an empty byte string.
NoEmptyPhoto(data) ==
    \A u \in DOMAIN data :
        /\ data[u].foto_perfil # Bytes(<<>>)
        /\ \A i \in 1..Len(data[u].revisiones) : data[u].revisiones[i].foto # Bytes(<<>>)

RoundTripOfNonEmptyPhotos ==
    (saved.called /\ WellTyped(saved.data) /\ NoEmptyPhoto(saved.data))
        => (saved.ok /\ Store = saved.data)

\* C2: registering a username the store holds writes nothing and leaves its record
\* as it is, so a username, once registered, keeps the account its first
\* registration created.
C2_DuplicateRejectedStep ==
    /\ \A s \in Sess : \A reg \in RegInputs :
          (Register(s, reg) /\ reg.usuario \in DOMAIN Store)
              => (file' = file /\ "success: registrado" \notin salida')
    /\ \A u \in DOMAIN Store :
          /\ u \in DOMAIN cargar_proyectos(file').data
          /\ Account(cargar_proyectos(file').data[u]) = Account(Store[u])

\* C2, of every step: a registered username keeps its first registration's record.
C2_FirstRegistrationKept == [][C2_DuplicateRejectedStep]_vars

\* The session state a login sets.
SessionOf(s) ==
    << usuario_logueado[s], proyecto_activo[s], revisiones_guardadas[s] >>

\* What a run of the login form shows.
LoginMsgs == {"success: bienvenido", "error: usuario o contrasena"}

\* C5: a login is accepted exactly when the username is in the store and the
\* password is the one its registration gave; an accepted login logs that user in,
\* a rejected one leaves the logged-in user, the active project and the session's
\* reviews as they were.
C5_LoginStep ==
    salida' \cap LoginMsgs # {} =>
        LET store == Store
            accepted == "success: bienvenido" \in salida'
        IN  \A s \in Sess : \A c \in Credentials :
                Login(s, c[1], c[2]) =>
                    LET known == c[1] \in DOMAIN store
                    IN  /\ accepted <=> (known /\ c[2] = clave_registro[c[1]])
                        /\ known => (store[c[1]].contrasena = hash_password(c[2])
                                        <=> c[2] = clave_registro[c[1]])
                        /\ accepted => /\ usuario_logueado'[s] = Some(c[1])
                                       /\ revisiones_guardadas'[s] = store[c[1]].revisiones
                        /\ ~accepted => /\ SessionOf(s)' = SessionOf(s)
                                        /\ "error: usuario o contrasena" \in salida'

\* C5, of every login: accepted exactly with the registered password.
C5_LoginIffPasswordMatches == [][C5_LoginStep]_vars

\* C5's case: a user with reviews on screen has a login with the wrong password of
\* an existing account rejected.
C5_Witness ==
    /\ "error: usuario o contrasena" \in salida
    /\ usuario_logueado[1] # None
    /\ Len(revisiones_guardadas[1]) > 0
    /\ DOMAIN Store = {ana, bob}

\* The review operations of a session, with any form.
ReviewOperation(s) ==
    \/ \E form \in FormsAccount : SubmitReview(s, form)
    \/ Cancel(s)
    \/ \E i \in 0..(MaxRevs - 1) : Edit(s, i)
    \/ \E i \in 0..(MaxRevs - 1) : DeletePress(s, i)

\* C10: without a logged-in user no review operation is enabled and the session
\* holds no project, review or editing index; logout brings that state about, and
\* only an accepted login ends it.
C10_LoggedOutState ==
    \A s \in Sess :
        usuario_logueado[s] = None =>
            /\ ~ENABLED ReviewOperation(s)
            /\ proyecto_activo[s] = None
            /\ revisiones_guardadas[s] = <<>>
            /\ editando_idx[s] = None

C10_LogoutStep ==
    \A s \in Sess :
        /\ Logout(s) => usuario_logueado'[s] = None
        /\ (usuario_logueado[s] = None /\ usuario_logueado'[s] # None)
              => "success: bienvenido" \in salida'

\* C10, in every state and of every step: review operations need a logged-in user.
C10_ReviewsOnlyWhileLoggedIn == []C10_LoggedOutState /\ [][C10_LogoutStep]_vars

\* C10's case: a session that logged out of an account with stored reviews.
C10_Witness ==
    /\ usuario_logueado[1] = None
    /\ salida = {"rerun"}
    /\ \E u \in DOMAIN Store : Len(Store[u].revisiones) > 0


\* The checklist keys an update takes from 'No cumple' to 'Cumple'.
Corregidos(anterior, form) ==
    { key \in Keys : anterior.cumple[key] = "No cumple" /\ form.cumple[key] = "Cumple" }

\* What a run that updates a review shows.
UpdateMsgs == {"success: revision actualizada", "error: actualizar la revision"}

\* C3: an update appends to the review's historial exactly one entry for each
\* checklist item that was 'No cumple' and is submitted as 'Cumple', none for any
\* other item, after the earlier entries, which stay as they were and in order.
C3_UpdateStep ==
    \A form \in FormsRev :
        (salida' \cap UpdateMsgs # {} /\ SubmitReview(1, form)) =>
            LET k == editando_idx[1][1] + 1
                anterior == revisiones_guardadas[1][k]
                nueva == revisiones_guardadas'[1][k]
                n0 == Len(anterior.historial)
                added == SubSeq(nueva.historial, n0 + 1, Len(nueva.historial))
            IN  /\ Len(revisiones_guardadas'[1]) = Len(revisiones_guardadas[1])
                /\ Len(nueva.historial) = n0 + Cardinality(Corregidos(anterior, form))
                /\ SubSeq(nueva.historial, 1, n0) = anterior.historial
                /\ \A key \in Corregidos(anterior, form) :
                      Cardinality({ n \in 1..Len(added) :
                                      added[n].label = items_a_revisar[key] }) = 1
                /\ \A n \in 1..Len(added) :
                      \E key \in Corregidos(anterior, form) :
                          added[n].label = items_a_revisar[key]

\* C3, of every update: one history entry per corrected item, after the earlier ones.
C3_OneEntryPerCorrection == [][C3_UpdateStep]_vars

\* An update has just added to a history of two entries a third, of another item.
C3_Witness ==
    /\ "success: revision actualizada" \in salida
    /\ \E k \in 1..Len(revisiones_guardadas[1]) :
          LET h == revisiones_guardadas[1][k].historial
          IN  /\ Len(h) = 3
              /\ h[1].label # h[2].label
              /\ h[3].label = items_a_revisar["posicion"]
              /\ h[1].label # h[3].label

\* C4: a confirmed delete of the review at index i takes exactly that review out
\* of the session list and out of the user's stored list; the others stay, in order.
C4_DeleteStep ==
    \A s \in Sess : \A i \in 0..(MaxRevs - 1) :
        ("success: revision eliminada" \in salida' /\ DeletePress(s, i)) =>
            LET u == usuario_logueado[s][1]
                revs == revisiones_guardadas[s]
                resto == [n \in 1..(Len(revs) - 1) |->
                             IF n <= i THEN revs[n] ELSE revs[n + 1]]
                after == cargar_proyectos(file').data
            IN  /\ revisiones_guardadas'[s] = resto
                /\ u \in DOMAIN after
                /\ after[u].revisiones = resto

\* C4, of every confirmed delete: exactly the review at i leaves list and store.
C4_DeleteRemovesExactlyOne == [][C4_DeleteStep]_vars

\* A file that holds a mapping from usernames to projects with lists of reviews.
IsProjectMapping(f) ==
    /\ f.st = "json"
    /\ f.top = "object"
    /\ \A u \in DOMAIN f.users :
          /\ f.users[u].kind = "dict"
          /\ f.users[u].revisiones_kind = "list"
          /\ \A n \in 1..Len(f.users[u].revisiones) :
                f.users[u].revisiones[n].kind = "dict"

Blank(t) == \A n \in 1..Len(t) : IsSpace(t[n])

\* What a run that submits the review form shows.
SubmitMsgs ==
    UpdateMsgs \cup {"success: revision guardada", "error: guardar la revision",
                     "error: nombre obligatorio", "error: piso obligatorio"}

\* C7: a review form whose name or floor is blank is rejected, for a new review and
\* for an edit: the session's reviews, the file and the editing index stay as they
\* are, nothing is saved, and an error is shown.
C7_RejectStep ==
    \A s \in Sess : \A form \in FormsAccount :
        (/\ LoggedIn(s)
         /\ Blank(form.nombre) \/ Blank(form.piso)
         /\ salida' \cap SubmitMsgs # {}
         /\ SubmitReview(s, form)) =>
            /\ revisiones_guardadas' = revisiones_guardadas
            /\ editando_idx' = editando_idx
            /\ file' = file
            /\ saved' = NoSave
            /\ ret' = ""
            /\ salida' \cap {"error: nombre obligatorio", "error: piso obligatorio"} # {}

\* C7, of every submit with a blank name or floor: rejected, nothing changes.
C7_BlankFieldsRejected == [][C7_RejectStep]_vars

\* A blank floor has just been rejected while a review was being edited.
C7_Witness ==
    /\ "error: piso obligatorio" \in salida
    /\ editando_idx[1] # None
    /\ Len(revisiones_guardadas[1]) > 0

\* C8: every review of the session list is in exactly one group of the archive,
\* that of its floor, with its own index in the list, the groups in list order; the
\* floors offered are the reviews' distinct floors in ascending code-point order.
C8_ArchiveGroups ==
    \A s \in Sess :
        LoggedIn(s) =>
            LET revs == revisiones_guardadas[s]
                grupos == revisiones_por_piso(revs)
                orden == pisos_ordenados(revs)
                pisos == { revs[n].piso : n \in 1..Len(revs) }
                lugares == UNION { { <<p, n>> : n \in 1..Len(grupos[p]) } :
                                   p \in DOMAIN grupos }
            IN  /\ \A i \in 0..(Len(revs) - 1) :
                      LET suyos == { l \in lugares : grupos[l[1]][l[2]][1] = i }
                      IN  /\ Cardinality(suyos) = 1
                          /\ \A l \in suyos :
                                /\ l[1] = revs[i + 1].piso
                                /\ grupos[l[1]][l[2]][2] = revs[i + 1]
                /\ \A l \in lugares :
                      /\ grupos[l[1]][l[2]][1] \in 0..(Len(revs) - 1)
                      /\ l[2] > 1 => grupos[l[1]][l[2] - 1][1] < grupos[l[1]][l[2]][1]
                /\ Len(orden) = Cardinality(pisos)
                /\ { orden[k] : k \in 1..Len(orden) } = pisos
                /\ \A k \in 1..(Len(orden) - 1) : StrLess(orden[k], orden[k + 1])
                /\ Botones(revs) = 0..(Len(revs) - 1)

\* Floor 2 was reviewed before floor 10, and the archive offers 10 before 2; the
\* review of floor 10 is being edited.
C8_Witness ==
    /\ LoggedIn(1)
    /\ Len(revisiones_guardadas[1]) = 2
    /\ revisiones_guardadas[1][1].piso = <<50>>
    /\ revisiones_guardadas[1][2].piso = <<49, 48>>
    /\ pisos_ordenados(revisiones_guardadas[1]) = << <<49, 48>>, <<50>> >>
    /\ editando_idx[1] = Some(1)

\* C9: when a session's guardar_revisiones_usuario returns True the account's
\* stored reviews are that session's list, whatever the store and the other
\* session held; and a run that does not call guardar_proyectos leaves the file
\* as it is, so the stored list stays that of the session that saved last.
C9_SaveStep ==
    /\ \A s \in Sess :
          (ret' = "True" /\ StepConc(s)) =>
              LET u == usuario_logueado[s][1]
                  after == cargar_proyectos(file').data
              IN  /\ u \in DOMAIN after
                  /\ after[u].revisiones = revisiones_guardadas'[s]
    /\ saved' = NoSave => file' = file

\* C9, of every save: the store holds the list of the session that saved last.
C9_LastWriteWins == [][C9_SaveStep]_vars

\* Both sessions are logged in, the store holds the list of one of them, and a
\* review of the other is not in it.
C9_Witness ==
    /\ ret = "True"
    /\ \A s \in Sess : usuario_logueado[s] = Some(ana)
    /\ ana \in DOMAIN Store
    /\ \E s, t \in Sess :
          /\ s # t
          /\ Store[ana].revisiones = revisiones_guardadas[s]
          /\ Len(revisiones_guardadas[s]) > 0
          /\ \E n \in 1..Len(revisiones_guardadas[t]) :
                \A m \in 1..Len(revisiones_guardadas[s]) :
                    revisiones_guardadas[s][m] # revisiones_guardadas[t][n]

\* What a run shows when a review was saved, updated or deleted, and when it was not.
ReviewSuccessMsgs ==
    {"success: revision guardada", "success: revision actualizada",
     "success: revision eliminada"}

ReviewErrorMsgs ==
    {"error: guardar la revision", "error: actualizar la revision",
     "error: guardar proyectos", "error: cargar proyectos"}

\* C11: a run in which guardar_revisiones_usuario returned False shows an error
\* and no success message.
C11_FailedSaveShowsError ==
    ret = "False" =>
        /\ salida \cap ReviewErrorMsgs # {}
        /\ salida \cap ReviewSuccessMsgs = {}


\* A run of the Eliminar handler of session s for index i that popped the review.
C12_Removed(s, i) ==
    /\ "success: revision eliminada" \in salida'
    /\ DeletePress(s, i)

\* C12: a review is popped only when its own Eliminar button was pressed before,
\* while it was listed, and this press is the second one.
C12_RemovedOnlyOnSecondPress ==
    [][\A s \in Sess : \A i \in 0..(MaxRevs - 1) :
          C12_Removed(s, i) => <<usuario_logueado[s][1], i>> \in pulsada[s]]_vars


\* A run of session s that replaced the review at editando_idx by the form's.
C13_UpdateApplied(s) ==
    /\ editando_idx[s] # None
    /\ salida' \cap UpdateMsgs # {}
    /\ \E form \in FormsConc : SubmitReview(s, form)

\* C13: when an update is applied, editando_idx is within the session list and
\* is the place of the review whose Editar was pressed.
C13_UpdateReplacesChosenReview ==
    [][\A s \in Sess :
          C13_UpdateApplied(s) =>
              /\ editando_idx[s][1] < Len(revisiones_guardadas[s])
              /\ elegida[s] = editando_idx[s]]_vars


\* The store after a run holds the users it held before, each with the record
\* it had, but for the reviews of usuario.
C14_OnlyReviewsOf(usuario, before, after) ==
    /\ DOMAIN after = DOMAIN before
    /\ \A v \in DOMAIN before :
          IF v = usuario
          THEN Account(after[v]) = Account(before[v])
          ELSE after[v] = before[v]

\* A run of session s that calls guardar_revisiones_usuario.
C14_Persist(s) ==
    /\ ret' # ""
    /\ \/ \E form \in FormsConc : SubmitReview(s, form)
       \/ \E i \in 0..(MaxRevs - 1) : DeletePress(s, i)

\* C14: a run that calls guardar_revisiones_usuario changes nothing in the store
\* but the review list of the logged-in user.
C14_SaveChangesOnlyOwnReviews ==
    [][\A s \in Sess :
          C14_Persist(s) =>
              C14_OnlyReviewsOf(usuario_logueado[s][1], Store, Store')]_vars


\* A run of session s that submitted a new review whose save failed.
C15_NewReviewNotSaved(s) ==
    /\ "error: guardar la revision" \in salida'
    /\ \E form \in FormsConc : SubmitReview(s, form)

\* C15: when the save of a newly submitted review fails, the session list is
\* the one before the submit.
C15_FailedNewReviewLeavesList ==
    [][\A s \in Sess :
          C15_NewReviewNotSaved(s) =>
              revisiones_guardadas'[s] = revisiones_guardadas[s]]_vars


\* The three checks on a registration form: a username of at least 3 characters,
\* a password of at least 6, an e-mail with an '@'.
C16_ChecksPass(reg) ==
    /\ Len(reg.usuario) >= 3
    /\ Len(reg.contrasena) >= 6
    /\ Contains(reg.correo, 64)

\* C16: a registration whose form fails one of the three checks registers
\* nothing, adds no record to the store and writes nothing.
C16_RegisteredOnlyIfChecksPass ==
    [][\A s \in Sess : \A reg \in RegInputs :
          (Register(s, reg) /\ ~C16_ChecksPass(reg)) =>
              /\ "success: registrado" \notin salida'
              /\ saved' = NoSave
              /\ file' = file]_vars

=============================================================================
